---- MODULE Spec2Model ----
(***************************************************************************)
(* Model of scripts/extract_qa.py: the Q&A extraction pipeline.            *)
(*                                                                         *)
(* Text (file names, suffixes, record ids, document content) is a sequence *)
(* of one-character strings, so that suffix/stem splitting, lower-casing,  *)
(* whitespace stripping and id formatting are computed as the code does.   *)
(* A JSON value is a tagged record [t |-> ..]; a JSON object that is a Q&A *)
(* record carries its fields in d, a TLA+ record whose DOMAIN is the set   *)
(* of keys present (a missing key is a missing field).                     *)
(***************************************************************************)
EXTENDS Integers, Sequences, FiniteSets, TLC

\* ---------------------------------------------------------------- bounds
\* Files on one command line.
MaxFiles == 2
\* Elements of one service response array.
MaxRecs == 3

\* ------------------------------------------------------------------ text
\* str.lower() on the characters that occur in the modelled file names.
Lower(c) ==
    CASE c = "M" -> "m"
      [] c = "D" -> "d"
      [] c = "T" -> "t"
      [] c = "X" -> "x"
      [] OTHER -> c

LowerStr(s) == [i \in 1..Len(s) |-> Lower(s[i])]

\* str.rfind('.') over s[1..n], 1-based; 0 when there is no dot.
RECURSIVE RFindDot(_, _)
RFindDot(s, n) ==
    IF n = 0 THEN 0
    ELSE IF s[n] = "." THEN n
    ELSE RFindDot(s, n - 1)

\* pathlib: the last dot splits the name unless it is the first or the last
\* character of the name.
SplitAt(name) ==
    LET j == RFindDot(name, Len(name))
    IN  IF 1 < j /\ j < Len(name) THEN j ELSE 0

\* Path.suffix
Suffix(name) ==
    IF SplitAt(name) = 0 THEN <<>>
    ELSE SubSeq(name, SplitAt(name), Len(name))

\* Path.stem
Stem(name) ==
    IF SplitAt(name) = 0 THEN name
    ELSE SubSeq(name, 1, SplitAt(name) - 1)

IsSpace(c) == c \in {" ", "\n", "\t"}

\* str.strip(): drop leading and trailing whitespace.
RECURSIVE LStrip(_)
LStrip(s) ==
    IF s = <<>> THEN <<>>
    ELSE IF IsSpace(Head(s)) THEN LStrip(Tail(s))
    ELSE s

RECURSIVE RStrip(_)
RStrip(s) ==
    IF s = <<>> THEN <<>>
    ELSE IF IsSpace(s[Len(s)]) THEN RStrip(SubSeq(s, 1, Len(s) - 1))
    ELSE s

Strip(s) == RStrip(LStrip(s))

DigitChar(d) == <<"0", "1", "2", "3", "4", "5", "6", "7", "8", "9">>[d + 1]

\* The decimal text of a natural number, as an f-string renders an int.
RECURSIVE DecStr(_)
DecStr(n) ==
    IF n < 10 THEN <<DigitChar(n)>>
    ELSE DecStr(n \div 10) \o <<DigitChar(n % 10)>>

\* ------------------------------------------------------------- constants
\* READERS: the registered suffixes.
READERS ==
    { <<".", "t", "x", "t">>,
      <<".", "m", "d">>,
      <<".", "d", "o", "c", "x">>,
      <<".", "p", "d", "f">>,
      <<".", "x", "l", "s", "x">> }

\* Readers that import a third-party library and sys.exit(1) without it.
NeedsLibrary == READERS \ { <<".", "t", "x", "t">>, <<".", "m", "d">> }

\* MODELS: selector -> backend id and temperature (the float kept as text).
MODELS ==
    ("gemini-2.0-flash" :> [id |-> "gemini-2.0-flash", temperature |-> "0.7"])
    @@ ("gemini-3-flash-preview" :>
            [id |-> "gemini-3-pro-preview", temperature |-> "1.0"])

\* CategoryType: the Literal of the pydantic schema.
CategoryType ==
    {"Personal", "Ethics", "Leadership", "Teamwork", "Healthcare",
     "Technical", "Other"}

\* The response_schema of generation_config: an array of objects, three
\* required fields, each of JSON type string.
ResponseSchema ==
    [type |-> "array",
     itemType |-> "object",
     properties |-> [category |-> "string", question |-> "string",
                     answer |-> "string"],
     required |-> {"category", "question", "answer"}]

\* ------------------------------------------------------------ JSON values
Obj(d) == [t |-> "object", d |-> d]

Arr(items) == [t |-> "array", items |-> items]

EmptyDict == [k \in {} |-> 0]

\* json.dumps: the text of a value; json.loads: the value of a text, or a
\* JSONDecodeError when the text is not JSON.
JsonDumps(v) == [k |-> "json", v |-> v]

JsonLoads(doc) ==
    IF doc.k = "json" THEN [ok |-> TRUE, v |-> doc.v]
    ELSE [ok |-> FALSE, v |-> [t |-> "null"]]

\* What iterating a Python value yields: the items of a list, the keys
\* (strings) of a dict; iterating None or a number raises TypeError.
Iterable(v) == v.t \in {"array", "object"}

IterItems(v) ==
    IF v.t = "array" THEN v.items
    ELSE [i \in 1..Cardinality(DOMAIN v.d) |-> [t |-> "string"]]

\* ------------------------------------------------------- extract_with_gemini
\* Placeholders for a reader, a service answer or a request that never was.
NoRead == [k |-> "none"]

NoResp == [k |-> "none"]

NoRequest == [model_name |-> "none"]

\* MODELS.get(model_key, MODELS['gemini-2.0-flash'])
ModelConfigOtherDefault(model_key) ==
    IF model_key \in DOMAIN MODELS THEN MODELS[model_key]
    ELSE MODELS["gemini-3-flash-preview"]

ModelConfig(model_key) ==
    IF model_key \in DOMAIN MODELS THEN MODELS[model_key]
    ELSE MODELS["gemini-2.0-flash"]

\* The GenerativeModel the request is sent through.
BuildRequest(content, model_key) ==
    [model_name |-> ModelConfig(model_key).id,
     temperature |-> ModelConfig(model_key).temperature,
     response_mime_type |-> "application/json",
     response_schema |-> ResponseSchema,
     content |-> content]

\* extract_with_gemini(content, api_key, model_key), given what the
\* environment answers: resp.k is "importerror" (a library is missing:
\* sys.exit before any call), "templateerror" (a prompt file cannot be read
\* or rendered: an exception before any call), "raise" (generate_content
\* raises: transport or auth), "garbage" (a body json.loads cannot parse) or
\* "json" (a body that parses to resp.v).  No check of the parsed value
\* follows json.loads.
ExtractWithGemini(content, model_key, resp) ==
    LET req == BuildRequest(content, model_key)
    IN  CASE resp.k = "importerror" ->
               [status |-> "exit", called |-> FALSE, request |-> NoRequest,
                value |-> [t |-> "null"]]
          [] resp.k = "templateerror" ->
               [status |-> "raise", called |-> FALSE, request |-> NoRequest,
                value |-> [t |-> "null"]]
          [] resp.k = "raise" ->
               [status |-> "raise", called |-> TRUE, request |-> req,
                value |-> [t |-> "null"]]
          [] OTHER ->
               IF JsonLoads(resp).ok
               THEN [status |-> "ok", called |-> TRUE, request |-> req,
                     value |-> JsonLoads(resp).v]
               ELSE [status |-> "raise", called |-> TRUE, request |-> req,
                     value |-> [t |-> "null"]]

\* ---------------------------------------------------------------- process_file
\* f"{file_path.stem}_{i+1}.md" for the zero-based position i.
StampIdBase0(stem, i) == stem \o <<"_">> \o DecStr(i) \o <<".", "m", "d">>

StampId(stem, i) == stem \o <<"_">> \o DecStr(i + 1) \o <<".", "m", "d">>

\* qa['id'] = ...: sets (or overwrites) the key id of a dict.
SetId(d, id) == ("id" :> id) @@ d

\* The stamping loop succeeds when the value can be iterated and every item
\* is a dict; otherwise item assignment (or enumerate) raises TypeError.
CanStamp(v) ==
    /\ Iterable(v)
    /\ \A i \in 1..Len(IterItems(v)) : IterItems(v)[i].t = "object"

\* The value after the loop: a list keeps its order, each dict stamped in
\* place; a dict without keys is returned as it is.
StampAll(v, stem) ==
    IF v.t = "array"
    THEN Arr([i \in 1..Len(v.items) |->
                 Obj(SetId(v.items[i].d, StampId(stem, i - 1)))])
    ELSE v

\* The blank-content test of process_file.
IsBlankNoStrip(content) == content = <<>>

IsBlank(content) == Strip(content) = <<>>

\* The registry test of process_file.
SupportedAnySuffix(file_path) == Suffix(file_path) # <<>>

Supported(file_path) == LowerStr(Suffix(file_path)) \in READERS

\* What one process_file call did: its arguments, what the reader and the
\* service did (NoRead, NoResp when not asked), whether the service was
\* called and with what request, how the call ended (status "ok": it
\* returned ret; "raise": an exception propagates; "exit": sys.exit).
Outcome(file_path, model, read, resp, called, request, status, ret) ==
    [file |-> file_path, model |-> model, read |-> read, resp |-> resp,
     called |-> called, request |-> request, status |-> status, ret |-> ret]

\* The part of process_file after a reader returned non-blank text.
ExtractAndStamp(file_path, read, model, resp) ==
    LET e == ExtractWithGemini(read.text, model, resp)
    IN  IF e.status = "ok" /\ CanStamp(e.value)
        THEN Outcome(file_path, model, read, resp, TRUE, e.request, "ok",
                     StampAll(e.value, Stem(file_path)))
        ELSE Outcome(file_path, model, read, resp, e.called, e.request,
                     IF e.status = "ok" THEN "raise" ELSE e.status,
                     Arr(<<>>))

\* process_file(file_path, api_key, model).  read is what the reader would
\* do with the file, resp what the service would answer.
ProcessFile(file_path, read, model, resp) ==
    IF ~Supported(file_path)
    THEN Outcome(file_path, model, NoRead, NoResp, FALSE, NoRequest, "ok",
                 Arr(<<>>))
    ELSE IF read.k # "text"
    THEN Outcome(file_path, model, read, NoResp, FALSE, NoRequest, read.k,
                 Arr(<<>>))
    ELSE IF IsBlank(read.text)
    THEN Outcome(file_path, model, read, NoResp, FALSE, NoRequest, "ok",
                 Arr(<<>>))
    ELSE ExtractAndStamp(file_path, read, model, resp)

\* ------------------------------------------------------------------- main
\* all_qa.extend(qa_pairs), mutated to put the new records first.
ListExtendFront(list, v) == IterItems(v) \o list

\* list.extend(iterable)
ListExtend(list, v) == list \o IterItems(v)

\* existing + all_qa
ConcatSwapped(existing, new) == new \o existing

Concat(existing, new) == existing \o new

\* json.loads(output_path.read_text()) followed by existing + all_qa: the
\* load raises on text that is not JSON, the + raises TypeError unless the
\* loaded value is a list.
LoadExistingOrEmpty(doc) ==
    IF JsonLoads(doc).ok /\ JsonLoads(doc).v.t = "array"
    THEN [ok |-> TRUE, items |-> JsonLoads(doc).v.items]
    ELSE [ok |-> TRUE, items |-> <<>>]

LoadExisting(doc) ==
    IF JsonLoads(doc).ok /\ JsonLoads(doc).v.t = "array"
    THEN [ok |-> TRUE, items |-> JsonLoads(doc).v.items]
    ELSE [ok |-> FALSE, items |-> <<>>]

\* The list main writes, or ok = FALSE when the append step raises.
FinalList(append, doc, qa) ==
    IF append /\ doc.k # "missing"
    THEN [ok |-> LoadExisting(doc).ok,
          list |-> Concat(LoadExisting(doc).items, qa)]
    ELSE [ok |-> TRUE, list |-> qa]

\* all_qa after extending it with each returned value in turn.
RECURSIVE ExtendAll(_, _)
ExtendAll(acc, rets) ==
    IF rets = <<>> THEN acc
    ELSE ExtendAll(ListExtend(acc, Head(rets)), Tail(rets))

\* The output of one run without --append whose process_file calls return
\* rets, in that order.
SingleRun(rets) ==
    JsonDumps(Arr(FinalList(FALSE, [k |-> "missing"],
                            ExtendAll(<<>>, rets)).list))

\* How main ends before its loop, or "none": argparse rejects a --model
\* outside choices, then the API key and the file list are tested.
StartError(a) ==
    IF a.model \notin DOMAIN MODELS THEN "invalid choice"
    ELSE IF a.api_key = "" THEN "no api key"
    ELSE IF a.files = <<>> THEN "no files"
    ELSE "none"

\* ---------------------------------------------------------------- inputs
a_txt == <<"a", ".", "t", "x", "t">>

b_MD == <<"b", ".", "M", "D">>

c_exe == <<"c", ".", "e", "x", "e">>

d_pdf == <<"d", ".", "p", "d", "f">>

\* A name with two dots: the stem keeps the first.
e_v2_md == <<"e", ".", "v", "2", ".", "m", "d">>

\* A dot file: pathlib gives it no suffix.
dot_md == <<".", "m", "d">>

Files == {a_txt, b_MD, c_exe, d_pdf, e_v2_md, dot_md}

Texts == { <<>>, <<" ", "\n">>, <<"\t">>, <<"Q">>, <<" ", "Q", " ">> }

\* What a reader can do with a file whose text would be one of texts:
\* return it, raise (I/O, decoding, malformed file), or exit when the
\* library it imports is not installed.
ReadOutcomes(file_path, texts) ==
    {[k |-> "text", text |-> t] : t \in texts}
    \cup {[k |-> "raise"]}
    \cup (IF LowerStr(Suffix(file_path)) \in NeedsLibrary
          THEN {[k |-> "exit"]} ELSE {})

QA1 == [category |-> "Personal", question |-> "q1", answer |-> "a1"]

\* A category outside CategoryType.
QA2 == [category |-> "Misc", question |-> "q2", answer |-> "a2"]

\* No answer field.
QA3 == [category |-> "Ethics", question |-> "q3"]

Elems == {Obj(QA1), Obj(QA2), Obj(QA3), [t |-> "number"]}

ElemSeqs == UNION {[1..n -> Elems] : n \in 0..MaxRecs}

\* What the service can answer to one request.
Responses ==
    {[k |-> "importerror"], [k |-> "templateerror"], [k |-> "raise"],
     [k |-> "garbage"]}
    \cup {JsonDumps(Arr(s)) : s \in ElemSeqs}
    \cup {JsonDumps([t |-> "null"]), JsonDumps(Obj(EmptyDict)),
          JsonDumps(Obj(QA1))}

Selectors == {"gemini-2.0-flash", "gemini-3-flash-preview", "gemini-1.5-pro"}

\* The inputs of the runs of main: fewer than those of a single call, so
\* that lists of several files stay explorable.
RunFiles == {a_txt, b_MD, c_exe}

RunTexts == { <<" ", "\n">>, <<" ", "Q", " ">> }

RunResponses ==
    {[k |-> "templateerror"], [k |-> "raise"], [k |-> "garbage"],
     JsonDumps(Arr(<<>>)),
     JsonDumps(Obj(EmptyDict)),
     JsonDumps(Arr(<<Obj(QA1)>>)),
     JsonDumps(Arr(<<Obj(QA2), Obj(QA3)>>)),
     JsonDumps(Arr(<<Obj(QA1), [t |-> "number"]>>))}

FileLists == UNION {[1..n -> RunFiles] : n \in 0..MaxFiles}

ArgSets ==
    [files : FileLists, model : Selectors, append : BOOLEAN,
     api_key : {"", "key"}]

\* What process_file returned in an earlier run over a.txt and b.MD.
RetA ==
    ProcessFile(a_txt, [k |-> "text", text |-> <<"Q">>], "gemini-2.0-flash",
                JsonDumps(Arr(<<Obj(QA1)>>))).ret

RetB ==
    ProcessFile(b_MD, [k |-> "text", text |-> <<"Q">>], "gemini-2.0-flash",
                JsonDumps(Arr(<<Obj(QA2), Obj(QA3)>>))).ret

RetC == ProcessFile(c_exe, NoRead, "gemini-2.0-flash", NoResp).ret

\* The values process_file returned in the run that wrote the output file,
\* when a run without --append wrote it.
PrevLogs == { <<RetC>>, <<RetA>>, <<RetA, RetB>> }

\* The output file and its origin before the run: absent, not JSON, JSON
\* that is not an array (origin unknown: <<>>), or what an earlier run
\* wrote.
InitialOutputs ==
    {[disk |-> d, hist |-> <<>>] :
        d \in {[k |-> "missing"], [k |-> "garbage"],
               JsonDumps(Obj(EmptyDict))}}
    \cup {[disk |-> SingleRun(h), hist |-> h] : h \in PrevLogs}

\* ----------------------------------------------------------------- state
VARIABLES
    pc,      \* "idle", "loop" (in main's for loop), "done", "failed",
             \* "returned" (process_file was called on its own)
    err,     \* why the run failed: "none", "invalid choice", "no api key",
             \* "no files", "process_file", "append"
    args,    \* the parsed command line of the run
    idx,     \* 1-based position in files of the next file to process
    all_qa,  \* main's all_qa
    disk,    \* the text of the output file
    prior,   \* the text of the output file before the run
    last,    \* the latest process_file call: what it did
    log,     \* the values process_file returned in the run
    hist     \* the values process_file returned in the run that wrote prior

vars == <<pc, err, args, idx, all_qa, disk, prior, last, log, hist>>

NoLast ==
    Outcome(<<>>, "none", NoRead, NoResp, FALSE, NoRequest, "none", Arr(<<>>))

Init ==
    /\ pc = "idle"
    /\ err = "none"
    /\ args = [files |-> <<>>, model |-> "gemini-2.0-flash",
               append |-> FALSE, api_key |-> ""]
    /\ idx = 0
    /\ all_qa = <<>>
    /\ \E o \in InitialOutputs : disk = o.disk /\ hist = o.hist
    /\ prior = disk
    /\ last = NoLast
    /\ log = <<>>

\* The script starts: main up to all_qa = [].
Start ==
    /\ pc = "idle"
    /\ \E a \in ArgSets :
          /\ args' = a
          /\ err' = StartError(a)
          /\ pc' = IF StartError(a) = "none" THEN "loop" ELSE "failed"
    /\ idx' = 1
    /\ all_qa' = <<>>
    /\ UNCHANGED <<disk, prior, last, log, hist>>

\* One iteration of main's loop: process_file on the next file, then
\* all_qa.extend; an exception or exit inside process_file ends the run.
ProcessNext ==
    /\ pc = "loop"
    /\ idx <= Len(args.files)
    /\ \E read \in ReadOutcomes(args.files[idx], RunTexts),
          resp \in RunResponses :
          LET r == ProcessFile(args.files[idx], read, args.model, resp)
          IN  /\ last' = r
              /\ IF r.status = "ok"
                 THEN /\ all_qa' = ListExtend(all_qa, r.ret)
                      /\ log' = Append(log, r.ret)
                      /\ idx' = idx + 1
                      /\ UNCHANGED <<pc, err>>
                 ELSE /\ pc' = "failed"
                      /\ err' = "process_file"
                      /\ UNCHANGED <<all_qa, log, idx>>
    /\ UNCHANGED <<args, disk, prior, hist>>

\* After the loop: the append step and the write of the output file.
Finish ==
    /\ pc = "loop"
    /\ idx > Len(args.files)
    /\ LET f == FinalList(args.append, disk, all_qa)
       IN  IF f.ok
           THEN /\ all_qa' = f.list
                /\ disk' = JsonDumps(Arr(f.list))
                /\ pc' = "done"
                /\ UNCHANGED err
           ELSE /\ pc' = "failed"
                /\ err' = "append"
                /\ UNCHANGED <<all_qa, disk>>
    /\ UNCHANGED <<args, idx, prior, last, log, hist>>

\* process_file called on its own (by an importer of the module), with any
\* model selector.
CallProcessFile ==
    /\ pc = "idle"
    /\ \E f \in Files, m \in Selectors, resp \in Responses :
          \E read \in ReadOutcomes(f, Texts) :
              last' = ProcessFile(f, read, m, resp)
    /\ pc' = "returned"
    /\ UNCHANGED <<err, args, idx, all_qa, disk, prior, log, hist>>

Next == Start \/ ProcessNext \/ Finish \/ CallProcessFile

Spec == Init /\ [][Next]_vars

\* ---------------------------------------------------------------- claims
\* The records of a value process_file returned.
ItemsOf(v) == IF v.t = "array" THEN v.items ELSE <<>>

\* The records of a sequence of returned values, in order.
RECURSIVE FlattenRets(_)
FlattenRets(rets) ==
    IF rets = <<>> THEN <<>>
    ELSE ItemsOf(Head(rets)) \o FlattenRets(Tail(rets))

\* The returned values before the latest one.
Earlier(rets) == SubSeq(rets, 1, Len(rets) - 1)

\* The records of the output file before the run that the run keeps.
PriorItems ==
    IF args.append /\ prior.k = "json" /\ prior.v.t = "array"
    THEN prior.v.items ELSE <<>>

InMain == pc \in {"loop", "done", "failed"}

\* The text the latest reader returned is empty or whitespace only.
LastBlank ==
    /\ last.read.k = "text"
    /\ \A i \in 1..Len(last.read.text) : last.read.text[i] \in {" ", "\n", "\t"}

\* C1: a supported file whose text is empty or whitespace-only makes
\* process_file return an empty batch without calling the service; in a run
\* the aggregate is left as it was and the run goes on.
C1_BlankSkipped ==
    LastBlank =>
        /\ last.status = "ok"
        /\ last.ret = Arr(<<>>)
        /\ ~last.called
        /\ last.resp = NoResp
        /\ InMain => err # "process_file"
        /\ pc = "loop" => /\ all_qa = FlattenRets(Earlier(log))
                          /\ idx = Len(log) + 1

\* A whitespace-only second file, after a first file that gave records.
C1_Witness ==
    /\ pc = "loop"
    /\ Len(log) = 2
    /\ last.read = [k |-> "text", text |-> <<" ", "\n">>]
    /\ all_qa # <<>>
    /\ all_qa = ItemsOf(log[1])

\* Whether a value has the shape a schema asks for.
Conforms(schema, v) ==
    /\ v.t = schema.type
    /\ \A i \in 1..Len(v.items) :
          /\ v.items[i].t = schema.itemType
          /\ schema.required \subseteq DOMAIN v.items[i].d

\* The latest service answer parsed but is not an array of objects with the
\* three required fields.
ShapeViolated ==
    /\ last.called
    /\ last.resp.k = "json"
    /\ ~Conforms(ResponseSchema, last.resp.v)

\* C2: a response that violates the required shape is rejected: none of
\* its records reaches the aggregate or the written output.
C2_Rejected ==
    (ShapeViolated /\ InMain) =>
        /\ pc = "loop" => all_qa = FlattenRets(Earlier(log))
        /\ pc = "done" =>
              disk = JsonDumps(Arr(PriorItems \o FlattenRets(Earlier(log))))

\* The latest extraction call failed: transport or auth error, or a body
\* that does not parse.
ExtractionFailed == last.called /\ last.resp.k \in {"raise", "garbage"}

\* C3: a failed extraction call aborts its file only; the run goes on to
\* the later files and the write.
C3_RunContinues ==
    ExtractionFailed => ~(pc = "failed" /\ err = "process_file")

\* The base name of each supported file, written out.
BaseName ==
    (a_txt :> <<"a">>) @@ (b_MD :> <<"b">>) @@ (d_pdf :> <<"d">>)
    @@ (e_v2_md :> <<"e", ".", "v", "2">>)

\* The id of the record at 1-based position i of a batch of file f.
ExpectedId(f, i) == BaseName[f] \o <<"_", DigitChar(i), ".", "m", "d">>

\* C4: the record at zero-based position i of a batch of a file with base
\* name B gets id B_{i+1}.md, the batch keeps the order and the fields the
\* service returned, and the ids of a batch are pairwise distinct.
C4_PositionIds ==
    (last.status = "ok" /\ last.called /\ last.resp.v.t = "array") =>
        LET given == last.resp.v.items
            out == last.ret
        IN  /\ out.t = "array"
            /\ Len(out.items) = Len(given)
            /\ \A i \in 1..Len(given) :
                  out.items[i] =
                      Obj(("id" :> ExpectedId(last.file, i)) @@ given[i].d)
            /\ \A i, j \in 1..Len(given) :
                  i # j => out.items[i].d.id # out.items[j].d.id

\* A batch of MaxRecs records from a file whose name has two dots.
C4_Witness ==
    /\ last.status = "ok"
    /\ last.called
    /\ last.file = e_v2_md
    /\ last.ret.t = "array"
    /\ Len(last.ret.items) = MaxRecs
    /\ last.ret.items[MaxRecs].d.id[Len(BaseName[e_v2_md]) + 2] = DigitChar(MaxRecs)

\* C5: a successful run writes prior ++ batch(f1) ++ ... ++ batch(fn): the
\* prior records first and unchanged (with --append and an existing
\* output, none otherwise), then each file's records in file order.
C5_Aggregate ==
    pc = "done" =>
        /\ Len(log) = Len(args.files)
        /\ disk = JsonDumps(Arr(PriorItems \o FlattenRets(log)))

\* An appending run over two files whose first record equals the prior one:
\* both copies are in the output.
C5_Witness ==
    /\ pc = "done"
    /\ args.append
    /\ prior = SingleRun(<<RetA>>)
    /\ Len(log) = 2
    /\ log[1] = RetA
    /\ ItemsOf(log[2]) # <<>>
    /\ disk.v.items[1] = disk.v.items[2]

\* C6: a run over [A, B] followed by an appending run over [C] leaves the
\* output a single run over [A, B, C] leaves; and a run without --append
\* writes what SingleRun computes from the values process_file returned.
C6_AppendAssociative ==
    /\ (pc = "done" /\ ~args.append) => disk = SingleRun(log)
    /\ (pc = "done" /\ args.append /\ hist # <<>>) =>
           disk = SingleRun(hist \o log)

\* The output of a run over a.txt and b.MD, appended to by a run over one
\* file that gave records.
C6_Witness ==
    /\ pc = "done"
    /\ args.append
    /\ hist = <<RetA, RetB>>
    /\ Len(log) = 1
    /\ ItemsOf(log[1]) # <<>>

\* The output file existed before the run and was not a JSON array.
CorruptPrior ==
    /\ prior.k # "missing"
    /\ ~(prior.k = "json" /\ prior.v.t = "array")

\* C7: with --append and an existing output that is not a well-formed
\* array, the run fails and the output file keeps its prior contents.
C7_CorruptPriorKept ==
    (args.append /\ CorruptPrior) => (disk = prior /\ pc # "done")

\* The run extracted records and then failed at the append step.
C7_Witness ==
    /\ pc = "failed"
    /\ err = "append"
    /\ args.append
    /\ prior = [k |-> "garbage"]
    /\ all_qa # <<>>
    /\ disk = prior

\* C8: every record of every batch and of the aggregate has a category of
\* CategoryType.
C8_CategoryClosed ==
    /\ \A i \in 1..Len(ItemsOf(last.ret)) :
          ItemsOf(last.ret)[i].d.category \in CategoryType
    /\ \A i \in 1..Len(all_qa) : all_qa[i].d.category \in CategoryType

\* C9: a file whose lower-cased suffix is not in READERS is skipped: no
\* reader, no service call, no records, and the run goes on.
C9_UnsupportedSkipped ==
    (last.status # "none" /\ LowerStr(Suffix(last.file)) \notin READERS) =>
        /\ last.status = "ok"
        /\ last.read = NoRead
        /\ ~last.called
        /\ last.ret = Arr(<<>>)
        /\ InMain => err # "process_file"
        /\ pc = "loop" => /\ all_qa = FlattenRets(Earlier(log))
                          /\ idx = Len(log) + 1

\* An unsupported first file, with the second file still to process.
C9_Witness ==
    /\ pc = "loop"
    /\ last.file = c_exe
    /\ last.status = "ok"
    /\ idx = 2
    /\ Len(args.files) = 2

\* The backend id and temperature the request of a selector must carry.
ExpectedConfig(selector) ==
    CASE selector = "gemini-2.0-flash" ->
             [id |-> "gemini-2.0-flash", temperature |-> "0.7"]
      [] selector = "gemini-3-flash-preview" ->
             [id |-> "gemini-3-pro-preview", temperature |-> "1.0"]
      [] OTHER -> [id |-> "gemini-2.0-flash", temperature |-> "0.7"]

RequestAsConfigured ==
    last.called =>
        /\ last.request.model_name = ExpectedConfig(last.model).id
        /\ last.request.temperature = ExpectedConfig(last.model).temperature

\* C10 as stated: whatever the selector, the request carries the entry of
\* the selector (the default entry for an unknown one) and no run fails
\* because of the selector.
C10_AsStated ==
    /\ RequestAsConfigured
    /\ ~(pc = "failed" /\ err = "invalid choice")

\* C10, amended: a request built by extract_with_gemini carries the entry
\* of its selector, the default entry for a selector outside MODELS; main
\* accepts only the selectors of MODELS, and a run with another selector
\* ends at argument parsing: no file processed, nothing written.
C10_FallbackInExtractor ==
    /\ RequestAsConfigured
    /\ (InMain /\ args.model \notin DOMAIN MODELS) =>
           /\ pc = "failed"
           /\ err = "invalid choice"
           /\ last = NoLast
           /\ disk = prior
    /\ (pc = "failed" /\ err = "invalid choice") =>
           args.model \notin DOMAIN MODELS

\* A request built for a selector that MODELS does not hold.
C10_Witness ==
    /\ last.called
    /\ last.model = "gemini-1.5-pro"
    /\ last.request.model_name = "gemini-2.0-flash"
    /\ last.request.temperature = "0.7"

====
